---- MODULE Spec2Model ----
(***************************************************************************)
(* A model of spegel's LLM layer, src/src/spegel/llm.py: the process-wide  *)
(* logger "spegel.llm" and enable_llm_logging, the two streaming adapters  *)
(* GeminiClient.stream and MistralClient.stream (async generators driven   *)
(* by a consumer's __anext__), and get_default_client.                     *)
(*                                                                         *)
(* A Python str is a sequence of characters.  None is kept apart from the  *)
(* empty string wherever the code tells them apart.                        *)
(***************************************************************************)
EXTENDS Integers, Sequences, FiniteSets, TLC

\* ------------------------------------------------------------------ bounds

\* Longest prompt, content or API key drawn as an input.
MaxStrLen == 2

\* Most chunks the backend sends in one streaming response.
MaxChunks == 3

\* ------------------------------------------------------------ str and None

\* Characters of prompts and contents; the newline is among them because the
\* separator of the composed request is made of newlines.
Chars == {"a", "\n"}

\* Characters of API keys.
KeyChars == {"k", "y"}

StrsOver(alphabet, n) == UNION {[1..k -> alphabet] : k \in 0..n}

\* str values of length at most n.
Strs(n) == StrsOver(Chars, n)

\* An Optional[str]: None, or a str.
None == [isNone |-> TRUE, s |-> <<>>]

Some(s) == [isNone |-> FALSE, s |-> s]

\* Python truthiness of an Optional[str]: None and "" are falsy.
Truthy(v) == ~v.isNone /\ v.s # <<>>

\* "".join(parts)
RECURSIVE Join(_)
Join(parts) ==
    IF parts = <<>> THEN <<>> ELSE Head(parts) \o Join(Tail(parts))

\* -------------------------------------------------------------- the logger

\* logging.INFO, the level of every logger.info call and the default of
\* enable_llm_logging.
INFO == 20

\* logging.CRITICAL
CRITICAL == 50

\* The levels a caller passes to enable_llm_logging: DEBUG, INFO, WARNING.
Levels == {10, INFO, 30}

\* The backend's chunks.  kind "malformed": the attribute path to the text
\* raises; kind "none": the path exists and the text is None; kind "text": the
\* text is the str in `text`.
Chunks ==
    {[kind |-> "malformed", text |-> <<>>], [kind |-> "none", text |-> <<>>]}
    \cup {[kind |-> "text", text |-> t] : t \in {<<>>, <<"H">>, <<"i">>}}

VARIABLES
    environ,        \* os.environ: variable name -> Optional[str]
    genai,          \* TRUE when `from google import genai` succeeded
    selection,      \* what get_default_client returned, or NotCalled
    loggerLevel,    \* logger.level
    handlers,       \* logger.handlers
    lastEnable,     \* level of the most recent enable_llm_logging call, 0 if none
    adapter,        \* class of the client whose stream() is being consumed
    prompt,         \* stream()'s argument prompt
    content,        \* stream()'s argument content
    user_content,   \* the generator's local user_content
    submitted,      \* the texts handed to the backend's streaming call
    opened,         \* the streaming request: "no", "ok" or "failed"
    pc,             \* where the async generator is
    waiting,        \* the consumer awaits __anext__()
    pulled,         \* the chunks the generator took from the backend so far
    collected,      \* the generator's local collected
    received,       \* the fragments the consumer got from __anext__()
    error,          \* the exception __anext__() raised to the consumer
    infoCalls,      \* the logger.info calls of this stream call
    logOutput,      \* the lines the logger's handlers wrote during this call
    stdout,         \* what this stream call printed
    reconfigured    \* enable_llm_logging ran since this stream call was made

loggerVars == <<loggerLevel, handlers, lastEnable>>

selectVars == <<environ, genai, selection>>

callVars == <<adapter, prompt, content, user_content, submitted, opened, pc,
              waiting, pulled, collected, received, error, infoCalls,
              logOutput, stdout, reconfigured>>

vars == <<selectVars, loggerVars, callVars>>

\* The generator is suspended (or not yet started) and the consumer may ask.
Suspended == {"created", "yielded", "yielded_final"}

\* No stream call is in progress.
Finished == {"idle", "done", "raised", "closed"}

\* The generator is suspended at an await: other code of the event loop runs.
Awaiting == {"open", "iter"}

\* logger.isEnabledFor(level)
isEnabledFor(level) == level >= loggerLevel

\* What one logger.info(event, text) call adds to the handlers' output: one
\* line per attached handler when INFO is enabled, nothing otherwise.  (The
\* root logger has no handler of its own, and logging's last-resort handler
\* writes WARNING and above only.)
Emit(event, text) ==
    IF isEnabledFor(INFO)
    THEN [i \in 1..Len(handlers) |-> [event |-> event, text |-> text]]
    ELSE <<>>

\* logger.info(event, text): the call and what it writes.
logger_info(event, text) ==
    /\ infoCalls' = Append(infoCalls, [event |-> event, text |-> text])
    /\ logOutput' = logOutput \o Emit(event, text)

\* Faulty variant of AddHandlerOnce: the `if not logger.handlers:` test is
\* dropped and every call attaches a handler.
AlwaysAddHandler(hs) == Append(hs, "StreamHandler")

\* The handlers after enable_llm_logging's `if not logger.handlers:` block.
AddHandlerOnce(hs) ==
    IF hs = <<>> THEN Append(hs, "StreamHandler") ELSE hs

\* enable_llm_logging(level).  It is synchronous code of the one event loop:
\* it runs between stream calls or while a generator is suspended at a yield
\* or an await, never inside a generator's synchronous stretch.
enable_llm_logging(level) ==
    /\ pc \in Finished \cup Suspended \cup Awaiting
    /\ loggerLevel' = level
    /\ handlers' = AddHandlerOnce(handlers)
    /\ lastEnable' = level
    /\ reconfigured' = (pc # "idle")
    /\ UNCHANGED <<selectVars, adapter, prompt, content, user_content,
                   submitted, opened, pc, waiting, pulled, collected,
                   received, error, infoCalls, logOutput, stdout>>

\* ---------------------------------------------------- get_default_client

Environments ==
    [{"GEMINI_API_KEY", "MISTRAL_API_KEY"} ->
        {None} \cup {Some(k) : k \in StrsOver(KeyChars, MaxStrLen)}]

\* os.getenv(name)
getenv(name) == environ[name]

NotCalled == [client |-> "not called", api_key |-> <<>>, ok |-> FALSE]

\* Faulty variant of DefaultClient: the two tests are swapped and the Mistral
\* key is preferred.
PreferMistral(gemini_api_key, mistral_api_key) ==
    IF Truthy(mistral_api_key)
    THEN [client |-> "MistralClient", api_key |-> mistral_api_key.s, ok |-> TRUE]
    ELSE IF Truthy(gemini_api_key) /\ genai
    THEN [client |-> "GeminiClient", api_key |-> gemini_api_key.s, ok |-> TRUE]
    ELSE [client |-> "None", api_key |-> <<>>, ok |-> FALSE]

\* The (client, flag) pair get_default_client returns; a client is its class
\* and the key it was built with.
DefaultClient(gemini_api_key, mistral_api_key) ==
    IF Truthy(gemini_api_key) /\ genai
    THEN [client |-> "GeminiClient", api_key |-> gemini_api_key.s, ok |-> TRUE]
    ELSE IF Truthy(mistral_api_key)
    THEN [client |-> "MistralClient", api_key |-> mistral_api_key.s, ok |-> TRUE]
    ELSE [client |-> "None", api_key |-> <<>>, ok |-> FALSE]

get_default_client ==
    /\ selection' = DefaultClient(getenv("GEMINI_API_KEY"),
                                  getenv("MISTRAL_API_KEY"))
    /\ UNCHANGED <<environ, genai, loggerVars, callVars>>

\* ------------------------------------------------- the streaming adapters

\* Faulty variant of UserContent: the separator is appended whatever the
\* content.
AlwaysSeparated(P, C) == P \o <<"\n", "\n">> \o C

\* user_content = f"{prompt}\n\n{content}" if content else prompt
UserContent(P, C) ==
    IF C # <<>> THEN P \o <<"\n", "\n">> \o C ELSE P

\* client.stream(P, C) on a client of class a: an async generator object is
\* made and nothing of its body runs yet.  GeminiClient.__init__ raises
\* unless genai was imported, so such a client exists only then.
stream(a, P, C) ==
    /\ pc \in Finished
    /\ a = "GeminiClient" => genai
    /\ adapter' = a
    /\ prompt' = P
    /\ content' = C
    /\ user_content' = <<>>
    /\ submitted' = <<>>
    /\ opened' = "no"
    /\ pc' = "created"
    /\ waiting' = FALSE
    /\ pulled' = <<>>
    /\ collected' = <<>>
    /\ received' = <<>>
    /\ error' = "none"
    /\ infoCalls' = <<>>
    /\ logOutput' = <<>>
    /\ stdout' = <<>>
    /\ reconfigured' = FALSE
    /\ UNCHANGED <<selectVars, loggerVars>>

\* The consumer's __anext__(): the generator starts, or resumes after the
\* yield it is suspended at.
Anext ==
    /\ pc \in Suspended
    /\ waiting' = TRUE
    /\ pc' = CASE pc = "created" -> "start"
               [] pc = "yielded" -> "iter"
               [] pc = "yielded_final" -> "return"
    /\ UNCHANGED <<selectVars, loggerVars, adapter, prompt, content,
                   user_content, submitted, opened, pulled, collected,
                   received, error, infoCalls, logOutput, stdout,
                   reconfigured>>

\* The consumer abandons the generator (aclose()): GeneratorExit is raised at
\* the yield, which `except Exception` does not catch.
Aclose ==
    /\ pc \in Suspended
    /\ pc' = "closed"
    /\ UNCHANGED <<selectVars, loggerVars, adapter, prompt, content,
                   user_content, submitted, opened, waiting, pulled,
                   collected, received, error, infoCalls, logOutput, stdout,
                   reconfigured>>

\* Faulty variant of Yield: the fragment is handed over and the generator
\* runs on without waiting for the next __anext__().
YieldWithoutSuspending(text, at) ==
    /\ received' = Append(received, text)
    /\ waiting' = TRUE
    /\ pc' = IF at = "yielded" THEN "iter" ELSE "return"

\* `yield text`: the fragment goes to the consumer and the generator is
\* suspended at `at` until the next __anext__().
Yield(text, at) ==
    /\ received' = Append(received, text)
    /\ waiting' = FALSE
    /\ pc' = at

\* An exception leaves the generator: __anext__() raises it to the consumer.
Raise(exc) ==
    /\ pc' = "raised"
    /\ error' = exc
    /\ waiting' = FALSE

\* GeminiClient.stream up to its first await: the request is composed, the
\* coroutine of the streaming call is made, the prompt is logged.
GeminiStart ==
    /\ pc = "start"
    /\ adapter = "GeminiClient"
    /\ user_content' = UserContent(prompt, content)
    /\ logger_info("LLM Prompt", UserContent(prompt, content))
    /\ collected' = <<>>
    /\ pc' = "open"
    /\ UNCHANGED <<selectVars, loggerVars, adapter, prompt, content,
                   submitted, opened, waiting, pulled, received, error,
                   stdout, reconfigured>>

\* Faulty variant of GeminiOpen: a failure to open is swallowed and taken
\* for an empty response.
GeminiOpenSwallowed ==
    /\ pc = "open"
    /\ adapter = "GeminiClient"
    /\ submitted' = Append(submitted, user_content)
    /\ \E ok \in BOOLEAN :
        /\ opened' = IF ok THEN "ok" ELSE "failed"
        /\ pc' = IF ok THEN "iter" ELSE "after_loop"
    /\ UNCHANGED <<selectVars, loggerVars, adapter, prompt, content,
                   user_content, waiting, pulled, collected, received, error,
                   infoCalls, logOutput, stdout, reconfigured>>

\* `await stream`: the streaming request is opened, or fails to open and the
\* exception leaves the generator.
GeminiOpen ==
    /\ pc = "open"
    /\ adapter = "GeminiClient"
    /\ submitted' = Append(submitted, user_content)
    /\ \E ok \in BOOLEAN :
        IF ok
        THEN /\ opened' = "ok"
             /\ pc' = "iter"
             /\ UNCHANGED <<error, waiting>>
        ELSE /\ opened' = "failed"
             /\ Raise("OpenError")
    /\ UNCHANGED <<selectVars, loggerVars, adapter, prompt, content,
                   user_content, pulled, collected, received, infoCalls,
                   logOutput, stdout, reconfigured>>

\* MistralClient.stream up to its first await: the request is composed.
MistralStart ==
    /\ pc = "start"
    /\ adapter = "MistralClient"
    /\ user_content' = UserContent(prompt, content)
    /\ pc' = "open"
    /\ UNCHANGED <<selectVars, loggerVars, adapter, prompt, content,
                   submitted, opened, waiting, pulled, collected, received,
                   error, infoCalls, logOutput, stdout, reconfigured>>

\* `await self._client.chat.stream_async(...)`, then collected = [] and
\* logger.info("LLM data has run").
MistralOpen ==
    /\ pc = "open"
    /\ adapter = "MistralClient"
    /\ submitted' = Append(submitted, user_content)
    /\ \E ok \in BOOLEAN :
        IF ok
        THEN /\ opened' = "ok"
             /\ collected' = <<>>
             /\ logger_info("LLM data has run", <<>>)
             /\ pc' = "iter"
             /\ UNCHANGED <<error, waiting>>
        ELSE /\ opened' = "failed"
             /\ Raise("OpenError")
             /\ UNCHANGED <<collected, infoCalls, logOutput>>
    /\ UNCHANGED <<selectVars, loggerVars, adapter, prompt, content,
                   user_content, pulled, received, stdout, reconfigured>>

\* `async for chunk in ...`: the backend hands over its next chunk.
NextChunk(maxChunks) ==
    /\ pc = "iter"
    /\ Len(pulled) < maxChunks
    /\ \E chunk \in Chunks : pulled' = Append(pulled, chunk)
    /\ pc' = "chunk"
    /\ UNCHANGED <<selectVars, loggerVars, adapter, prompt, content,
                   user_content, submitted, opened, waiting, collected,
                   received, error, infoCalls, logOutput, stdout,
                   reconfigured>>

\* `async for`: the backend's stream ends (StopAsyncIteration).
EndOfStream ==
    /\ pc = "iter"
    /\ pc' = "after_loop"
    /\ UNCHANGED <<selectVars, loggerVars, adapter, prompt, content,
                   user_content, submitted, opened, waiting, pulled,
                   collected, received, error, infoCalls, logOutput, stdout,
                   reconfigured>>

\* `async for`: the backend's iterator raises (the transport breaks); the
\* loop header is outside the try, so the exception leaves the generator.
StreamBreaks ==
    /\ pc = "iter"
    /\ Raise("TransportError")
    /\ UNCHANGED <<selectVars, loggerVars, adapter, prompt, content,
                   user_content, submitted, opened, pulled, collected,
                   received, infoCalls, logOutput, stdout, reconfigured>>

\* The chunk the loop body works on.
chunk == pulled[Len(pulled)]

\* Faulty variant of GeminiChunk: the loop body without its try/except, so a
\* malformed chunk's exception leaves the generator.
GeminiChunkUnguarded ==
    /\ pc = "chunk"
    /\ adapter = "GeminiClient"
    /\ CASE chunk.kind = "malformed" ->
              /\ Raise("AttributeError")
              /\ UNCHANGED <<collected, received>>
         [] chunk.kind = "text" /\ chunk.text # <<>> ->
              /\ collected' = Append(collected, chunk.text)
              /\ Yield(chunk.text, "yielded")
              /\ UNCHANGED error
         [] OTHER ->
              /\ pc' = "iter"
              /\ UNCHANGED <<collected, received, waiting, error>>
    /\ UNCHANGED <<selectVars, loggerVars, adapter, prompt, content,
                   user_content, submitted, opened, pulled, infoCalls,
                   logOutput, stdout, reconfigured>>

\* The body of GeminiClient.stream's loop: the try block around
\* chunk.candidates[0].content.parts[0].text, `if text:`, append and yield.
GeminiChunk ==
    /\ pc = "chunk"
    /\ adapter = "GeminiClient"
    /\ CASE chunk.kind = "malformed" ->
              \* the attribute path raises: except Exception: continue
              /\ pc' = "iter"
              /\ UNCHANGED <<collected, received, waiting>>
         [] chunk.kind = "text" /\ chunk.text # <<>> ->
              /\ collected' = Append(collected, chunk.text)
              /\ Yield(chunk.text, "yielded")
         [] OTHER ->
              \* text is None or "": `if text:` is false
              /\ pc' = "iter"
              /\ UNCHANGED <<collected, received, waiting>>
    /\ UNCHANGED <<selectVars, loggerVars, adapter, prompt, content,
                   user_content, submitted, opened, pulled, error, infoCalls,
                   logOutput, stdout, reconfigured>>

\* The body of MistralClient.stream's loop.  print("Event received:", chunk)
\* comes first.  A malformed chunk raises at chunk.data.choices[0].delta; a
\* None content takes the else branch, whose print names the undefined
\* `event` and raises NameError; both reach `except Exception`, which prints
\* "Error processing event: ..." and continues.
MistralChunk ==
    /\ pc = "chunk"
    /\ adapter = "MistralClient"
    /\ CASE chunk.kind = "text" ->
              \* content is not None: printed, appended and yielded
              /\ stdout' = stdout \o <<"Event received", "delta">>
              /\ collected' = Append(collected, chunk.text)
              /\ Yield(chunk.text, "yielded")
         [] chunk.kind = "none" ->
              \* else branch: NameError on `event`, caught by the except
              /\ stdout' =
                    stdout \o <<"Event received", "Error processing event">>
              /\ pc' = "iter"
              /\ UNCHANGED <<collected, received, waiting>>
         [] chunk.kind = "malformed" ->
              \* the attribute path raises, caught by the except
              /\ stdout' =
                    stdout \o <<"Event received", "Error processing event">>
              /\ pc' = "iter"
              /\ UNCHANGED <<collected, received, waiting>>
    /\ UNCHANGED <<selectVars, loggerVars, adapter, prompt, content,
                   user_content, submitted, opened, pulled, error, infoCalls,
                   logOutput, reconfigured>>

\* Faulty variant of GeminiFinish: the last fragment is logged instead of
\* the joined response.
GeminiFinishLastOnly ==
    /\ pc = "after_loop"
    /\ adapter = "GeminiClient"
    /\ IF collected # <<>>
       THEN logger_info("LLM Response", collected[Len(collected)])
       ELSE UNCHANGED <<infoCalls, logOutput>>
    /\ pc' = "done"
    /\ waiting' = FALSE
    /\ UNCHANGED <<selectVars, loggerVars, adapter, prompt, content,
                   user_content, submitted, opened, pulled, collected,
                   received, error, stdout, reconfigured>>

\* After GeminiClient.stream's loop: the response is logged if anything was
\* collected, and the generator returns.
GeminiFinish ==
    /\ pc = "after_loop"
    /\ adapter = "GeminiClient"
    /\ IF collected # <<>>
       THEN logger_info("LLM Response", Join(collected))
       ELSE UNCHANGED <<infoCalls, logOutput>>
    /\ pc' = "done"
    /\ waiting' = FALSE
    /\ UNCHANGED <<selectVars, loggerVars, adapter, prompt, content,
                   user_content, submitted, opened, pulled, collected,
                   received, error, stdout, reconfigured>>

\* Faulty variant of MistralFinish: the generator returns without the
\* trailing `yield "".join(collected)`.
MistralFinishNoTrailer ==
    /\ pc = "after_loop"
    /\ adapter = "MistralClient"
    /\ IF collected # <<>>
       THEN logger_info("LLM Response", Join(collected))
       ELSE UNCHANGED <<infoCalls, logOutput>>
    /\ pc' = "done"
    /\ waiting' = FALSE
    /\ UNCHANGED <<selectVars, loggerVars, adapter, prompt, content,
                   user_content, submitted, opened, pulled, collected,
                   received, error, stdout, reconfigured>>

\* After MistralClient.stream's loop: the response is logged if anything was
\* collected, then `yield "".join(collected)`.
MistralFinish ==
    /\ pc = "after_loop"
    /\ adapter = "MistralClient"
    /\ IF collected # <<>>
       THEN logger_info("LLM Response", Join(collected))
       ELSE UNCHANGED <<infoCalls, logOutput>>
    /\ Yield(Join(collected), "yielded_final")
    /\ UNCHANGED <<selectVars, loggerVars, adapter, prompt, content,
                   user_content, submitted, opened, pulled, collected, error,
                   stdout, reconfigured>>

\* MistralClient.stream resumed after its last yield: the generator returns.
MistralReturn ==
    /\ pc = "return"
    /\ pc' = "done"
    /\ waiting' = FALSE
    /\ UNCHANGED <<selectVars, loggerVars, adapter, prompt, content,
                   user_content, submitted, opened, pulled, collected,
                   received, error, infoCalls, logOutput, stdout,
                   reconfigured>>

\* ---------------------------------------------------------- specifications

\* The state after the module is imported: the logger is above CRITICAL and
\* has no handler, no client was selected, no stream call was made.
InitCall ==
    /\ adapter = "none"
    /\ prompt = <<>>
    /\ content = <<>>
    /\ user_content = <<>>
    /\ submitted = <<>>
    /\ opened = "no"
    /\ pc = "idle"
    /\ waiting = FALSE
    /\ pulled = <<>>
    /\ collected = <<>>
    /\ received = <<>>
    /\ error = "none"
    /\ infoCalls = <<>>
    /\ logOutput = <<>>
    /\ stdout = <<>>
    /\ reconfigured = FALSE

InitLogger ==
    /\ loggerLevel = CRITICAL + 1
    /\ handlers = <<>>
    /\ lastEnable = 0

Init ==
    /\ environ = [n \in {"GEMINI_API_KEY", "MISTRAL_API_KEY"} |-> None]
    /\ genai = TRUE
    /\ selection = NotCalled
    /\ InitLogger
    /\ InitCall

\* The steps of a stream call, with the callers' strings at most maxLen long
\* (the prompt non-empty, as stream's contract requires) and the backend's
\* responses at most maxChunks long.
Streaming(maxLen, maxChunks) ==
    \/ \E level \in Levels : enable_llm_logging(level)
    \/ \E a \in {"GeminiClient", "MistralClient"} :
          \E P \in Strs(maxLen) \ {<<>>}, C \in Strs(maxLen) : stream(a, P, C)
    \/ Anext
    \/ Aclose
    \/ GeminiStart
    \/ GeminiOpen
    \/ MistralStart
    \/ MistralOpen
    \/ NextChunk(maxChunks)
    \/ EndOfStream
    \/ StreamBreaks
    \/ GeminiChunk
    \/ MistralChunk
    \/ GeminiFinish
    \/ MistralFinish
    \/ MistralReturn

\* Stream calls with short requests and responses of up to MaxChunks chunks.
Next == Streaming(1, MaxChunks)

Spec == Init /\ [][Next]_vars

\* Stream calls up to the submission of the request, with prompts and
\* contents of up to MaxStrLen characters: the call, the consumer's first
\* __anext__(), the composition and the opening of the streaming request.
NextRequest ==
    \/ \E a \in {"GeminiClient", "MistralClient"} :
          \E P \in Strs(MaxStrLen) \ {<<>>}, C \in Strs(MaxStrLen) :
              stream(a, P, C)
    \/ Anext
    \/ GeminiStart
    \/ GeminiOpen
    \/ MistralStart
    \/ MistralOpen

SpecRequest == Init /\ [][NextRequest]_vars

\* get_default_client in every environment.
InitSelect ==
    /\ environ \in Environments
    /\ genai \in BOOLEAN
    /\ selection = NotCalled
    /\ InitLogger
    /\ InitCall

NextSelect == get_default_client

SpecSelect == InitSelect /\ [][NextSelect]_vars

\* ------------------------------------------------------------ the claims

\* s without its last element.
Front(s) == SubSeq(s, 1, Len(s) - 1)

\* The concatenation of a sequence of fragments, in order.
RECURSIVE Concatenation(_)
Concatenation(fs) ==
    IF fs = <<>> THEN <<>> ELSE Concatenation(Front(fs)) \o fs[Len(fs)]

\* The texts of a sequence of chunks.
Texts(cs) == [i \in 1..Len(cs) |-> cs[i].text]

\* The events of a sequence of log records.
EventNames(rs) == [i \in 1..Len(rs) |-> rs[i].event]

\* The logger.info calls of this stream call for the event e.
Calls(e) == SelectSeq(infoCalls, LAMBDA r : r.event = e)

\* The chunks the loop body is done with.
Processed == IF pc = "chunk" THEN Front(pulled) ELSE pulled

HasText(c) == c.kind = "text"

HasNonEmptyText(c) == c.kind = "text" /\ c.text # <<>>

\* The separator between prompt and content: a blank line.
BlankLine == <<"\n", "\n">>

\* C1: once either adapter has handed a request to its backend, the text
\* submitted for a non-empty prompt P and content C is exactly P when C is
\* empty and P, a blank line, C when C is not.
C1_ComposedRequest ==
    (opened # "no" /\ prompt # <<>>) =>
        submitted = << IF content = <<>>
                       THEN prompt
                       ELSE prompt \o BlankLine \o content >>

\* C1: a request with empty content was opened and carries the prompt alone.
C1_Witness ==
    /\ adapter = "GeminiClient"
    /\ opened = "ok"
    /\ content = <<>>
    /\ Len(prompt) = MaxStrLen
    /\ submitted = <<prompt>>

\* A key is present when its variable is set.
IsSet(v) == ~v.isNone

\* A key is present when its variable is set to a non-empty string.
IsSetNonEmpty(v) == ~v.isNone /\ Len(v.s) > 0

\* The class the selection policy names when present(_) says which keys are
\* there.
PolicyClass(present(_)) ==
    IF present(environ["GEMINI_API_KEY"]) /\ genai THEN "GeminiClient"
    ELSE IF present(environ["MISTRAL_API_KEY"]) THEN "MistralClient"
    ELSE "None"

\* C2 as stated: get_default_client returns (GeminiClient, True) if the
\* Gemini key is present (set) and the library importable, else
\* (MistralClient, True) if the Mistral key is present, else (None, False).
C2_PolicyOnSetKeys ==
    selection # NotCalled =>
        /\ selection.client = PolicyClass(IsSet)
        /\ selection.ok = (PolicyClass(IsSet) # "None")

\* C2 amended: the same policy, a key counting as present only when its
\* variable is set to a non-empty string; the client is built with that key.
C2_PolicyOnNonEmptyKeys ==
    selection # NotCalled =>
        /\ selection.client = PolicyClass(IsSetNonEmpty)
        /\ selection.ok = (PolicyClass(IsSetNonEmpty) # "None")
        /\ selection.client = "GeminiClient" =>
              selection.api_key = environ["GEMINI_API_KEY"].s
        /\ selection.client = "MistralClient" =>
              selection.api_key = environ["MISTRAL_API_KEY"].s

\* C2: with the library importable, GEMINI_API_KEY set to the empty string and
\* MISTRAL_API_KEY set to a key, a MistralClient was returned.
C2_Witness ==
    /\ genai
    /\ environ["GEMINI_API_KEY"] = Some(<<>>)
    /\ Truthy(environ["MISTRAL_API_KEY"])
    /\ selection.client = "MistralClient"
    /\ selection.ok

\* C3 as stated: in GeminiClient.stream the fragments the caller got are the
\* texts of the chunks whose extraction succeeded, in chunk order, and no
\* chunk's extraction ends the stream.
C3_EveryExtractedTextYielded ==
    adapter = "GeminiClient" =>
        /\ received = Texts(SelectSeq(Processed, HasText))
        /\ pc = "raised" => error \in {"OpenError", "TransportError"}

\* C3 amended: the fragments the caller got are the non-empty texts of the
\* chunks whose extraction succeeded, in chunk order (an empty or None text
\* yields nothing), and no chunk's extraction ends the stream.
C3_EveryNonEmptyTextYielded ==
    adapter = "GeminiClient" =>
        /\ received = Texts(SelectSeq(Processed, HasNonEmptyText))
        /\ pc = "raised" => error \in {"OpenError", "TransportError"}

\* C3: a malformed chunk came between two well-formed ones and the caller,
\* at the end of the stream, holds both fragments in order.
C3_Witness ==
    /\ adapter = "GeminiClient"
    /\ pc = "done"
    /\ pulled = << [kind |-> "text", text |-> <<"H">>],
                   [kind |-> "malformed", text |-> <<>>],
                   [kind |-> "text", text |-> <<"i">>] >>
    /\ received = << <<"H">>, <<"i">> >>

\* The fragments yielded while the backend streamed: all of them for
\* GeminiClient, all but the trailing full response for MistralClient.
Incremental ==
    IF adapter = "MistralClient" THEN Front(received) ELSE received

\* C4: when a stream call was consumed to exhaustion and collected at least
\* one fragment, there is one "LLM Response" logger call and its text is the
\* concatenation of the incremental fragments the caller got, in order.
C4_ResponseIsConcatenation ==
    (pc = "done" /\ collected # <<>>) =>
        /\ Len(Calls("LLM Response")) = 1
        /\ Calls("LLM Response")[1].text = Concatenation(Incremental)

\* C4: a MistralClient call ended after two fragments and logged "Hi".
C4_Witness ==
    /\ pc = "done"
    /\ adapter = "MistralClient"
    /\ Len(collected) = 2
    /\ Calls("LLM Response") =
          << [event |-> "LLM Response", text |-> <<"H", "i">>] >>

\* C5: without enable_llm_logging nothing is written; with logging enabled
\* for INFO before a stream call, and left alone since, the log of the call
\* consumed to exhaustion holds
\* one "LLM Prompt" line, then one "LLM Response" line if and only if a
\* fragment was produced, and nothing else.
C5_PromptAndResponseOnly ==
    /\ lastEnable = 0 => logOutput = <<>>
    /\ (pc = "done" /\ lastEnable # 0 /\ ~reconfigured /\ isEnabledFor(INFO)) =>
          EventNames(logOutput) =
              <<"LLM Prompt">>
              \o (IF collected # <<>> THEN <<"LLM Response">> ELSE <<>>)

\* The text-bearing chunks of a MistralClient response: those whose delta
\* content is a str.
TextBearing == SelectSeq(pulled, HasText)

\* The trailing fragment of MistralClient.stream was yielded.
AfterTrailer == pc \in {"yielded_final", "return", "done"}

\* C6: in MistralClient.stream, once the backend's stream has ended
\* naturally the caller holds one fragment per text-bearing chunk and one
\* more, the last, which is the concatenation of all those before it; until
\* then the caller holds no extra fragment.
C6_TrailingFullResponse ==
    adapter = "MistralClient" =>
        /\ AfterTrailer =>
              /\ Len(received) = Len(TextBearing) + 1
              /\ Front(received) = Texts(TextBearing)
              /\ received[Len(received)] = Concatenation(Front(received))
        /\ pc \in {"start", "open", "iter", "chunk", "yielded", "after_loop"} =>
              received = Texts(SelectSeq(Processed, HasText))

\* C6: a MistralClient call ended after two text-bearing chunks and the
\* caller holds three fragments, the last one "Hi".
C6_Witness ==
    /\ adapter = "MistralClient"
    /\ pc = "done"
    /\ Len(TextBearing) = 2
    /\ received = << <<"H">>, <<"i">>, <<"H", "i">> >>

\* C7: nothing is submitted before the first consumption; a request that
\* failed to open has raised to the caller with no fragment yielded, no chunk
\* taken and no "LLM Response" logged; and the loop body never raises to the
\* caller, whatever the chunk.
C7_OnlyOpenFailuresPropagate ==
    /\ [](pc = "created" => (submitted = <<>> /\ opened = "no"))
    /\ [](opened = "failed" =>
            /\ pc = "raised"
            /\ error = "OpenError"
            /\ received = <<>>
            /\ pulled = <<>>
            /\ Calls("LLM Response") = <<>>)
    /\ [][(pc = "chunk" /\ pc' # pc) =>
            (pc' \in {"iter", "yielded"} /\ error' = "none")]_vars

\* C7: a MistralClient request failed to open and the caller got the error.
C7_Witness ==
    /\ adapter = "MistralClient"
    /\ opened = "failed"
    /\ pc = "raised"
    /\ error = "OpenError"

\* C8: before any enable_llm_logging call the logger is above CRITICAL with
\* no handler; after any number of calls it has exactly one handler and its
\* level is that of the most recent call.
C8_OneHandlerLastLevel ==
    /\ lastEnable = 0 => (handlers = <<>> /\ loggerLevel = CRITICAL + 1)
    /\ lastEnable # 0 => (Len(handlers) = 1 /\ loggerLevel = lastEnable)

\* C8: the handlers wrote a line during this call, so INFO was enabled, and
\* the level is WARNING now: enable_llm_logging ran at least twice.
C8_Witness ==
    /\ logOutput # <<>>
    /\ lastEnable = 30
    /\ loggerLevel = 30
    /\ Len(handlers) = 1

\* C9: during a stream call a chunk is taken from the backend only while the
\* consumer awaits a fragment and holds every fragment collected so far; a
\* fragment handed over is one fragment and ends the consumer's wait; and no
\* more fragments are collected than chunks were taken.
C9_PacedByConsumer ==
    /\ [][(pulled' # pulled /\ pc \notin Finished) =>
            (waiting /\ received = collected)]_vars
    /\ [][(received' # received /\ pc \notin Finished) =>
            /\ waiting
            /\ ~waiting'
            /\ Len(received') = Len(received) + 1]_vars
    /\ [](Len(collected) <= Len(pulled))

\* C9: the consumer holds two fragments, has not asked for a third, and the
\* backend has been asked for two chunks only.
C9_Witness ==
    /\ pc = "yielded"
    /\ ~waiting
    /\ Len(received) = 2
    /\ Len(pulled) = 2

\* C10: in MistralClient.stream the loop body, given a chunk whose delta
\* content is None, yields nothing, collects nothing, goes on to the next
\* chunk and does not print the except handler's "Error processing event".
C10_NoneIsNotAnError ==
    [][(adapter = "MistralClient" /\ pc = "chunk" /\ chunk.kind = "none"
            /\ pc' # pc) =>
          /\ pc' = "iter"
          /\ received' = received
          /\ collected' = collected
          /\ \A i \in (Len(stdout) + 1)..Len(stdout') :
                stdout'[i] # "Error processing event"]_vars

====
